---- MODULE Spec2Model ----
(***************************************************************************)
(* Order completion and fill reconciliation of the mmb trading engine.     *)
(*                                                                         *)
(* Spec / FairSpec : Exchange::wait_order_finish, the single-flight        *)
(*                   coordinator over the wait_finish_order map.           *)
(* SpecFills       : Exchange::check_order_fills, the REST fallback poller,*)
(*                   racing push ingress on one order.                     *)
(* SpecObserved    : one get_order_trades answer worked through, with the  *)
(*                   stream pushing the same trades.                       *)
(* SpecScenario    : get_order_info polling of a Created order, no push.   *)
(* SpecRecorder /                                                          *)
(* FairRecorder    : EventRecorder and its start_db_event_recorder task.   *)
(* SpecChains      : PriceSourceService::prepare_price_source_chains.      *)
(* SpecPoller /                                                            *)
(* FairPoller      : the poller's task calling check_order_fills in a loop.*)
(* SpecWork        : wait_order_finish and its poller on an exchange       *)
(*                   without REST fill mechanism.                          *)
(* SpecFinish /                                                            *)
(* FairFinish      : Exchange::create_order_finish_future and              *)
(*                   finish_order_future over orders_finish_events.        *)
(* SpecTrades      : check_order_fills on get_order_trades answers long    *)
(*                   enough to name a trade twice.                         *)
(***************************************************************************)
EXTENDS Integers, FiniteSets, Sequences, TLC

\* ------------------------------------------------------------------ bounds
NumCallers == 3
NumTrades == 2
MaxResponseLen == 1
MaxObservations == 4
NumEvents == 3
NumCurrencies == 3
MaxPairs == 2
NumFinishCallers == 2

\* mpsc::channel(20_000) and BATCH_SIZE_TO_SAVE = 250, scaled down.
ChannelCapacity == 2
BATCH_SIZE_TO_SAVE == 2

Callers == 1..NumCallers
\* The callers of create_order_finish_future for the order.
FinishCallers == 1..NumFinishCallers
\* The client order ids of the orders waited for.
Orders == {1}
\* The order the poller and push ingress work on.
FillOrder == 1

\* Tables events are recorded for, and the currency codes of price sources.
Tables == {"persons", "orders"}
Currencies == 1..NumCurrencies

\* The exchange's trades of that order: the first fills 2, every other one 1,
\* at alternating prices and with fee 1; together they fill the requested amount.
TradeIds == 1..NumTrades
AmountOf(t) == IF t = 1 THEN 2 ELSE 1
PriceOf(t) == 1 + (t % 2)
FeeOf(t) == 1
OrderAmount == NumTrades + 1
Prices == {1, 2}

\* ------------------------------------------------------- order state machine
Statuses == {"Creating", "Created", "FailedToCreate", "Canceled", "Completed", "Expired"}

TerminalStatuses == {"Completed", "Canceled", "FailedToCreate", "Expired"}

\* OrderRef::is_finished
OrderIsFinished(st) == st \in TerminalStatuses

\* Mutant: a terminal order may be re-opened.
TransitionAllowedReopen(from, to) ==
    \/ from = "Creating" /\ to \in {"Created", "FailedToCreate"}
    \/ from = "Created" /\ to \in {"Completed", "Canceled", "Expired"}
    \/ from = "Canceled" /\ to = "Created"

\* Creating -> {Created, FailedToCreate}; Created -> {Completed, Canceled, Expired}
TransitionAllowed(from, to) ==
    \/ from = "Creating" /\ to \in {"Created", "FailedToCreate"}
    \/ from = "Created" /\ to \in {"Completed", "Canceled", "Expired"}

\* Mutant: any terminal status is finished, whatever the exit flag.
is_finished_any_terminal(st, exit_flag) == OrderIsFinished(st)

\* is_finished(order, exit_on_order_is_finished_even_if_fills_didnt_received)
\* Mutant: Completed is no longer finished on its own.
is_finished_flag_only(st, exit_flag) == OrderIsFinished(st) /\ exit_flag

\* Mutant: only Completed is finished, whatever the exit flag.
is_finished_completed_only(st, exit_flag) == st = "Completed"

\* Mutant: the exit flag is read the wrong way round.
is_finished_flag_inverted(st, exit_flag) ==
    st = "Completed" \/ (OrderIsFinished(st) /\ ~exit_flag)

is_finished(st, exit_flag) ==
    st = "Completed" \/ (OrderIsFinished(st) /\ exit_flag)

\* --------------------------------------------------------------- variables
VARIABLES
    status,             \* order id -> OrderStatus
    pc,                 \* caller -> position in wait_order_finish
    callOrder,          \* caller -> the order it waits for (0: none yet)
    role,               \* caller -> branch taken at the session map
    cancelled,          \* caller -> its cancellation token is triggered
    result,             \* caller -> what wait_order_finish returned
    rxSeen,             \* subscriber -> messages broadcast before it subscribed
    wait_finish_order,  \* session map: the order ids holding a broadcast sender
    wait_cancel_order,  \* the other per-order map of the exchange
    shardLock,          \* order id -> caller holding the write lock of its shard (0: free)
    sentCount,          \* order id -> outcomes broadcast on its channel
    poller,             \* order id -> state of the spawned poll_order_fills task
    pollersStarted,     \* order id -> poll_order_fills tasks spawned
    lastCheck,          \* order id -> result of the poller's check_order_fills
    exchange_order_id,  \* the order has its exchange order id
    filled,             \* the order's filled amount
    fills,              \* trade ids of the order's fills
    cost,               \* sum of amount * price over the fills (average price * filled)
    commission,         \* the order's accumulated commission amount
    applied,            \* trade id -> times the applier has applied it
    restType,           \* features.rest_fills_features.fills_type
    last_order_trades_request_time,  \* internal_props: set (TRUE) once a query was prepared
    fpc,                \* position of check_order_fills
    exitFlag,           \* exit_on_order_is_finished_even_if_fills_didnt_received
    fCancelled,         \* the cancellation token of check_order_fills is triggered
    topStatus,          \* order status read at the top of the current iteration
    pending,            \* trades of the get_order_trades response not yet examined
    checkResult,        \* what check_order_fills returned
    fillNotes,          \* deltas reported downstream (on_fill_applied), in order
    terminalNotes,      \* terminal notifications sent downstream (on_order_terminal)
    observed,           \* the discrete observations handed in for one order, in order
    database_url,       \* EventRecorder::start was given Some(url)
    recorder,           \* state of the start_db_event_recorder task
    data_tx,            \* the data channel: (event, table) sent and not yet received
    events_map,         \* table -> the task's buffered events and staleness of its clock
    written,            \* event -> times it was written to the database
    savedCount,         \* EventRecorder::save calls so far (events are numbered by call)
    saveResult,         \* event -> what save returned for it
    shutdown_signal,    \* a shutdown signal waits in shutdown_signal_rx
    shutdown_rx,        \* what the shutdown receiver resolves to
    shutdown_rx_taken,  \* the receiver was taken out of its Mutex<Option<..>>
    shutdown_handle,    \* what the last graceful_shutdown returned
    price_source_setting,  \* the CurrencyPriceSourceSettings handed in
    price_source_chain,    \* the PriceSourceChain built for it, or the panic
    execution_notification,  \* features.websocket_options.execution_notification
    orders_finish_events,  \* the caller whose oneshot sender the map holds for the order (0: no entry)
    finishPc,           \* caller -> position in create_order_finish_future
    finishCancelled,    \* caller -> its cancellation token is triggered
    finishRx,           \* caller -> state of its oneshot receiver
    finishResult,       \* caller -> what create_order_finish_future returned
    finishRan           \* finish_order_future has run since the order finished

coordVars == <<pc, callOrder, role, cancelled, result, rxSeen,
               wait_finish_order, wait_cancel_order, shardLock, sentCount,
               poller, pollersStarted, lastCheck>>

fillVars == <<exchange_order_id, filled, fills, cost, commission, applied, restType,
              last_order_trades_request_time, fpc, exitFlag, fCancelled, topStatus,
              pending, checkResult>>

noteVars == <<fillNotes, terminalNotes>>

recorderVars == <<database_url, recorder, data_tx, events_map, written, savedCount,
                  saveResult, shutdown_signal, shutdown_rx, shutdown_rx_taken,
                  shutdown_handle>>

chainVars == <<price_source_setting, price_source_chain>>

featureVars == <<execution_notification>>

finishVars == <<orders_finish_events, finishPc, finishCancelled, finishRx, finishResult,
                finishRan>>

\* State that the waits, the poller and push ingress do not touch.
auxVars == <<observed, recorderVars, chainVars, featureVars, finishVars>>

engineVars == <<status, coordVars, fillVars, noteVars, observed, featureVars, finishVars>>

vars == <<status, coordVars, fillVars, noteVars, auxVars>>

\* What check_order_fills can return to poll_order_fills.
CheckResults == {"Ok", "OkOrderNotFound", "ErrNoMetadata", "ErrReserve", "ErrExchange",
                 "ErrFillHandling", "ErrNoExchangeOrderId"}

\* ------------------------------------------------------------- coordinator
CoordInit ==
    /\ pc = [c \in Callers |-> "idle"]
    /\ callOrder = [c \in Callers |-> 0]
    /\ role = [c \in Callers |-> "none"]
    /\ cancelled = [c \in Callers |-> FALSE]
    /\ result = [c \in Callers |-> "none"]
    /\ rxSeen = [c \in Callers |-> 0]
    /\ wait_finish_order = {}
    /\ wait_cancel_order = Orders
    /\ shardLock = [o \in Orders |-> 0]
    /\ sentCount = [o \in Orders |-> 0]
    /\ poller = [o \in Orders |-> "none"]
    /\ pollersStarted = [o \in Orders |-> 0]
    /\ lastCheck = [o \in Orders |-> "none"]

FillInit ==
    /\ exchange_order_id = FALSE
    /\ filled = 0
    /\ fills = {}
    /\ cost = 0
    /\ commission = 0
    /\ applied = [t \in TradeIds |-> 0]
    /\ last_order_trades_request_time = FALSE
    /\ fpc = "idle"
    /\ exitFlag = FALSE
    /\ fCancelled = FALSE
    /\ topStatus = "none"
    /\ pending = <<>>
    /\ checkResult = "none"
    /\ fillNotes = <<>>
    /\ terminalNotes = 0

\* EventRecorder::start: with a url the task is spawned; without one the
\* shutdown result is sent at once and both receivers are dropped.
RecorderStart(url) ==
    /\ recorder = IF url THEN "connecting" ELSE "none"
    /\ shutdown_rx = IF url THEN "pending" ELSE "Ok"
    /\ data_tx = <<>>
    /\ events_map = [t \in Tables |-> [present |-> FALSE, events |-> <<>>, stale |-> FALSE]]
    /\ written = [e \in 1..NumEvents |-> 0]
    /\ savedCount = 0
    /\ saveResult = [e \in 1..NumEvents |-> "none"]
    /\ shutdown_signal = FALSE
    /\ shutdown_rx_taken = FALSE
    /\ shutdown_handle = "none"

\* No chain has been asked for.
ChainInit ==
    /\ price_source_setting = [start_currency_code |-> 1, end_currency_code |-> 1,
                               pairs |-> <<>>]
    /\ price_source_chain = [panic |-> "not called", steps |-> <<>>]

\* No call of create_order_finish_future has been made.
FinishInit ==
    /\ orders_finish_events = 0
    /\ finishPc = [c \in FinishCallers |-> "idle"]
    /\ finishCancelled = [c \in FinishCallers |-> FALSE]
    /\ finishRx = [c \in FinishCallers |-> "none"]
    /\ finishResult = [c \in FinishCallers |-> "none"]
    /\ finishRan = FALSE

AuxInit ==
    /\ observed = <<>>
    /\ database_url = FALSE
    /\ RecorderStart(FALSE)
    /\ ChainInit
    /\ execution_notification = FALSE
    /\ FinishInit

Init ==
    /\ status = [o \in Orders |-> "Creating"]
    /\ CoordInit
    /\ FillInit
    /\ AuxInit
    /\ restType = "None"

\* on_order_terminal fires when a transition takes the order into a terminal status.
NotifyTerminal(n, from, to) ==
    IF from # to /\ OrderIsFinished(to) THEN n + 1 ELSE n

\* Order acknowledgment and push paths moving an order along its lifecycle.
OrderTransition(o, to) ==
    /\ TransitionAllowed(status[o], to)
    /\ status' = [status EXCEPT ![o] = to]
    /\ terminalNotes' = NotifyTerminal(terminalNotes, status[o], to)
    /\ UNCHANGED <<pc, callOrder, role, cancelled, result, rxSeen,
                   wait_finish_order, wait_cancel_order, shardLock, sentCount,
                   poller, pollersStarted, lastCheck>>
    /\ UNCHANGED <<fillVars, fillNotes, auxVars>>

\* CancellationToken::cancel on the token handed to one call.
Cancel(c) ==
    /\ pc[c] \in {"entry", "sub", "drv"}
    /\ ~cancelled[c]
    /\ cancelled' = [cancelled EXCEPT ![c] = TRUE]
    /\ UNCHANGED <<status, pc, callOrder, role, result, rxSeen,
                   wait_finish_order, wait_cancel_order, shardLock, sentCount,
                   poller, pollersStarted, lastCheck>>
    /\ UNCHANGED <<fillVars, noteVars, auxVars>>

\* The early return of wait_order_finish.
\* Mutant: the early return is dropped.
ReturnsEarlyNever(st) == FALSE

ReturnsEarly(st) == st = "FailedToCreate"

\* wait_order_finish up to the session map access.
Call(c, o, pre_cancelled) ==
    /\ pc[c] = "idle"
    /\ \A d \in Callers : d < c => pc[d] # "idle"
    /\ cancelled' = [cancelled EXCEPT ![c] = pre_cancelled]
    /\ callOrder' = [callOrder EXCEPT ![c] = o]
    /\ IF ReturnsEarly(status[o])
       THEN /\ pc' = [pc EXCEPT ![c] = "done"]
            /\ role' = [role EXCEPT ![c] = "early"]
            /\ result' = [result EXCEPT ![c] = "Ok"]
       ELSE /\ pc' = [pc EXCEPT ![c] = "entry"]
            /\ UNCHANGED <<role, result>>
    /\ UNCHANGED <<status, rxSeen, wait_finish_order, wait_cancel_order,
                   shardLock, sentCount, poller, pollersStarted, lastCheck>>
    /\ UNCHANGED <<fillVars, noteVars, auxVars>>

\* Mutant: the Vacant branch is taken without looking at the map.
EntryIsVacantUnchecked(o) == TRUE

\* DashMap::entry under the shard's write lock: Vacant iff no sender is stored.
EntryIsVacant(o) == o \notin wait_finish_order

\* Occupied branch: subscribe, keeping the entry (and its shard lock) alive.
EnterOccupied(c) ==
    LET o == callOrder[c] IN
    /\ pc[c] = "entry"
    /\ shardLock[o] = 0
    /\ ~EntryIsVacant(o)
    /\ shardLock' = [shardLock EXCEPT ![o] = c]
    /\ rxSeen' = [rxSeen EXCEPT ![c] = sentCount[o]]
    /\ role' = [role EXCEPT ![c] = "subscriber"]
    /\ pc' = [pc EXCEPT ![c] = "sub"]
    /\ UNCHANGED <<status, callOrder, cancelled, result, wait_finish_order,
                   wait_cancel_order, sentCount, poller, pollersStarted, lastCheck>>
    /\ UNCHANGED <<fillVars, noteVars, auxVars>>

\* Mutant: no poller is spawned where execution notifications come by websocket.
SpawnsPollOrderFillsUnlessNotified(has_websocket_notification) ==
    ~has_websocket_notification

\* wait_finish_order_work spawns poll_order_fills whatever
\* has_websocket_notification is, and hands the flag to it.
SpawnsPollOrderFills(has_websocket_notification) == TRUE

\* Vacant branch: insert the sender, then wait_finish_order_work spawns the poller.
EnterVacant(c) ==
    LET o == callOrder[c] IN
    /\ pc[c] = "entry"
    /\ shardLock[o] = 0
    /\ EntryIsVacant(o)
    /\ wait_finish_order' = wait_finish_order \cup {o}
    /\ role' = [role EXCEPT ![c] = "driver"]
    /\ IF SpawnsPollOrderFills(execution_notification)
       THEN /\ poller' = [poller EXCEPT ![o] = "running"]
            /\ pollersStarted' = [pollersStarted EXCEPT ![o] = @ + 1]
       ELSE UNCHANGED <<poller, pollersStarted>>
    /\ lastCheck' = [lastCheck EXCEPT ![o] = "none"]
    /\ pc' = [pc EXCEPT ![c] = "drv"]
    /\ UNCHANGED <<status, callOrder, cancelled, result, rxSeen,
                   wait_cancel_order, shardLock, sentCount>>
    /\ UNCHANGED <<fillVars, noteVars, auxVars>>

\* poll_order_fills returns (), and the spawned action maps that to Ok(()).
\* Mutant: the poller's check result is handed on to the driver.
PollOrderFillsOutcomePropagated(check) == check

PollOrderFillsOutcome(check) == "Ok"

\* The poll_order_fills task ends with its last check_order_fills result.
PollerEnds(o, check) ==
    /\ poller[o] = "running"
    /\ poller' = [poller EXCEPT ![o] = "done"]
    /\ lastCheck' = [lastCheck EXCEPT ![o] = check]
    /\ UNCHANGED <<status, pc, callOrder, role, cancelled, result, rxSeen,
                   wait_finish_order, wait_cancel_order, shardLock, sentCount,
                   pollersStarted>>
    /\ UNCHANGED <<fillVars, noteVars, auxVars>>

\* The scope guard of the Vacant branch.
GuardRuns(o) ==
    /\ wait_cancel_order' = wait_cancel_order \ {o}
    /\ UNCHANGED wait_finish_order

\* What the driver's wait resolves to once the order is finished or the call cancelled.
WorkOutcome(o) ==
    IF poller[o] = "done"
    THEN LET r == PollOrderFillsOutcome(lastCheck[o]) IN
         IF r \in {"Ok", "OkOrderNotFound"} THEN "Ok" ELSE r
    ELSE "Ok"

\* The driver's wait is over: order finished, or its token cancelled.
DriverWakes(c) == cancelled[c] \/ OrderIsFinished(status[callOrder[c]])

\* wait_finish_order_work returns; the outcome is broadcast; the guard runs.
DriverReturns(c) ==
    LET o == callOrder[c] IN
    /\ pc[c] = "drv"
    /\ DriverWakes(c)
    /\ IF WorkOutcome(o) = "Ok"
       THEN sentCount' = [sentCount EXCEPT ![o] = @ + 1]
       ELSE UNCHANGED sentCount
    /\ result' = [result EXCEPT ![c] = WorkOutcome(o)]
    /\ GuardRuns(o)
    /\ pc' = [pc EXCEPT ![c] = "done"]
    /\ UNCHANGED <<status, callOrder, role, cancelled, rxSeen,
                   shardLock, poller, pollersStarted, lastCheck>>
    /\ UNCHANGED <<fillVars, noteVars, auxVars>>

\* The three-hour ceiling expires: wait_finish_order_work returns an error,
\* nothing is broadcast, the guard runs.
DriverCeiling(c) ==
    LET o == callOrder[c] IN
    /\ pc[c] = "drv"
    /\ ~cancelled[c]
    /\ result' = [result EXCEPT ![c] = "ErrCeilingExpired"]
    /\ GuardRuns(o)
    /\ pc' = [pc EXCEPT ![c] = "done"]
    /\ UNCHANGED <<status, callOrder, role, cancelled, rxSeen,
                   shardLock, sentCount, poller, pollersStarted, lastCheck>>
    /\ UNCHANGED <<fillVars, noteVars, auxVars>>

\* Some broadcast::Sender of the order's channel is alive.
SendersAlive(o) ==
    \/ o \in wait_finish_order
    \/ \E d \in Callers : pc[d] = "drv" /\ callOrder[d] = o

\* Mutant: the subscriber waits for the broadcast only.
SubscriberWakesNoCancel(c) ==
    \/ sentCount[callOrder[c]] > rxSeen[c]
    \/ ~SendersAlive(callOrder[c])

\* select! { rx.recv(), cancellation_token.when_cancelled() }
SubscriberWakes(c) ==
    \/ sentCount[callOrder[c]] > rxSeen[c]
    \/ ~SendersAlive(callOrder[c])
    \/ cancelled[c]

\* The subscriber returns Ok(order.clone()); the entry and its lock are dropped.
SubscriberReturns(c) ==
    /\ pc[c] = "sub"
    /\ SubscriberWakes(c)
    /\ shardLock' = [shardLock EXCEPT ![callOrder[c]] = 0]
    /\ result' = [result EXCEPT ![c] = "Ok"]
    /\ pc' = [pc EXCEPT ![c] = "done"]
    /\ UNCHANGED <<status, callOrder, role, cancelled, rxSeen,
                   wait_finish_order, wait_cancel_order, sentCount,
                   poller, pollersStarted, lastCheck>>
    /\ UNCHANGED <<fillVars, noteVars, auxVars>>

Next ==
    \/ \E o \in Orders, to \in Statuses : OrderTransition(o, to)
    \/ \E c \in Callers : Cancel(c)
    \/ \E c \in Callers, o \in Orders, pre \in BOOLEAN : Call(c, o, pre)
    \/ \E c \in Callers : EnterOccupied(c)
    \/ \E c \in Callers : EnterVacant(c)
    \/ \E o \in Orders, check \in CheckResults : PollerEnds(o, check)
    \/ \E c \in Callers : DriverReturns(c)
    \/ \E c \in Callers : DriverCeiling(c)
    \/ \E c \in Callers : SubscriberReturns(c)

Spec == Init /\ [][Next]_vars


\* ---------------------------------------------------- fill event applier
\* Mutant: the trade identity is not looked up in the applied set.
DiscreteAppliesUnchecked(st, fs, t) == st = "Created"

\* A discrete fill is applied to an order accumulating fills, once per trade id.
DiscreteApplies(st, fs, t) == st = "Created" /\ t \notin fs

\* Mutant: every snapshot is taken as it comes.
SnapshotAppliesAlways(st, cur, total) == TRUE

\* Mutant: a snapshot is taken whenever it differs from the stored amount.
SnapshotAppliesAnyChange(st, cur, total) == st = "Created" /\ total # cur

\* A snapshot is applied only above the stored filled amount (high-water mark).
SnapshotApplies(st, cur, total) == st = "Created" /\ total > cur

ReportedStatuses == {"none", "Canceled"}

\* Mutant: only a reported status ends the order, a full amount does not.
StatusAfterApplyReportedOnly(st, new_filled, reported) ==
    IF reported # "none" THEN reported ELSE st

\* Mutant: the order completes one unit short of its amount.
StatusAfterApplyEarly(st, new_filled, reported) ==
    IF reported # "none" THEN reported
    ELSE IF new_filled >= OrderAmount - 1 THEN "Completed"
    ELSE st

\* Mutant: the order completes only beyond its amount.
StatusAfterApplyBeyondAmount(st, new_filled, reported) ==
    IF reported # "none" THEN reported
    ELSE IF new_filled > OrderAmount THEN "Completed"
    ELSE st

\* The order's status after a fill was applied.
StatusAfterApply(st, new_filled, reported) ==
    IF reported # "none" THEN reported
    ELSE IF new_filled = OrderAmount THEN "Completed"
    ELSE st

\* Mutant: an applied fill is reported downstream twice.
NotifyFillTwice(notes, delta) == Append(Append(notes, delta), delta)

\* on_fill_applied: an applied fill is reported downstream with its delta.
NotifyFill(notes, delta) == Append(notes, delta)

\* Mutant: a snapshot's delta is the absolute amount it carries.
SnapshotDeltaAbsolute(cur, total) == total

\* The delta a snapshot implies: incoming minus stored filled amount.
SnapshotDelta(cur, total) == total - cur

\* handle_order_filled for an event with a trade id (is_diff = true).
ApplyDiscrete(t) ==
    IF DiscreteApplies(status[FillOrder], fills, t)
    THEN /\ fills' = fills \cup {t}
         /\ filled' = filled + AmountOf(t)
         /\ cost' = cost + AmountOf(t) * PriceOf(t)
         /\ commission' = commission + FeeOf(t)
         /\ applied' = [applied EXCEPT ![t] = @ + 1]
         /\ status' = [status EXCEPT
                         ![FillOrder] = StatusAfterApply(@, filled + AmountOf(t), "none")]
         /\ fillNotes' = NotifyFill(fillNotes, AmountOf(t))
         /\ terminalNotes' = NotifyTerminal(terminalNotes, status[FillOrder],
                                   StatusAfterApply(status[FillOrder],
                                                    filled + AmountOf(t), "none"))
    ELSE UNCHANGED <<fills, filled, cost, commission, applied, status, noteVars>>

\* handle_order_filled for an event without trade id (is_diff = false).
ApplySnapshot(total, price, reported) ==
    IF SnapshotApplies(status[FillOrder], filled, total)
    THEN /\ filled' = total
         /\ cost' = total * price
         /\ status' = [status EXCEPT ![FillOrder] = StatusAfterApply(@, total, reported)]
         /\ fillNotes' = NotifyFill(fillNotes, SnapshotDelta(filled, total))
         /\ terminalNotes' = NotifyTerminal(terminalNotes, status[FillOrder],
                                   StatusAfterApply(status[FillOrder], total, reported))
         /\ UNCHANGED <<fills, commission, applied>>
    ELSE UNCHANGED <<fills, filled, cost, commission, applied, status, noteVars>>

progressVars == <<filled, fills, cost, commission, applied>>

pollVars == <<fpc, exitFlag, fCancelled, topStatus, pending, checkResult>>

\* ------------------------------------------------- push ingress and acks
\* The exchange's stream reports one trade of the order.
PushDiscrete(t) ==
    /\ ApplyDiscrete(t)
    /\ UNCHANGED <<coordVars, auxVars, exchange_order_id, restType,
                   last_order_trades_request_time, pollVars>>

\* The exchange's stream reports the order's absolute progress.
PushSnapshot(total, price, reported) ==
    /\ ApplySnapshot(total, price, reported)
    /\ UNCHANGED <<coordVars, auxVars, exchange_order_id, restType,
                   last_order_trades_request_time, pollVars>>

\* The exchange order id reaches the order.
ExchangeOrderIdArrives ==
    /\ ~exchange_order_id
    /\ ~OrderIsFinished(status[FillOrder])
    /\ exchange_order_id' = TRUE
    /\ UNCHANGED <<status, coordVars, auxVars, noteVars,
                   progressVars, restType,
                   last_order_trades_request_time, pollVars>>

\* ------------------------------------------------------ check_order_fills
\* check_order_fills returns.
Return(r) ==
    /\ fpc' = "done"
    /\ checkResult' = r

\* Mutant: RestFillsType::None is given a request type like the others.
NoRequestTypeToUseNever(rest_fills_type) == FALSE

\* RestFillsType::None => return Ok(()): there is no request type to use.
NoRequestTypeToUse(rest_fills_type) == rest_fills_type = "None"

\* Entry of check_order_fills up to its loop.
CheckOrderFillsStart(flag, has_metadata) ==
    /\ fpc \in {"idle", "done"}
    /\ exitFlag' = flag
    /\ IF ~has_metadata THEN Return("ErrNoMetadata")
       ELSE IF NoRequestTypeToUse(restType) THEN Return("Ok")
       ELSE fpc' = "top" /\ checkResult' = "none"
    /\ pending' = <<>>
    /\ topStatus' = "none"
    /\ UNCHANGED <<status, coordVars, auxVars, noteVars,
                   exchange_order_id, progressVars, restType,
                   last_order_trades_request_time, fCancelled>>

\* Mutant: an order still being created is polled like any other.
CalledForCreatingOrderNever(st) == FALSE

\* order.status() == OrderStatus::Creating
CalledForCreatingOrder(st) == st = "Creating"

\* Mutant: the query is issued without waiting for a reservation.
LoopTopWithoutReservation ==
    /\ fpc = "top"
    /\ IF \/ fCancelled
          \/ is_finished(status[FillOrder], exitFlag)
          \/ CalledForCreatingOrder(status[FillOrder])
       THEN Return("Ok") /\ UNCHANGED <<topStatus, last_order_trades_request_time>>
       ELSE /\ fpc' = "inflight"
            /\ topStatus' = status[FillOrder]
            /\ last_order_trades_request_time' = TRUE
            /\ UNCHANGED checkResult
    /\ UNCHANGED <<status, coordVars, auxVars, noteVars,
                   exchange_order_id, progressVars, restType,
                   exitFlag, fCancelled, pending>>

\* Top of an iteration: cancellation, is_finished, Creating.
LoopTop ==
    /\ fpc = "top"
    /\ IF \/ fCancelled
          \/ is_finished(status[FillOrder], exitFlag)
          \/ CalledForCreatingOrder(status[FillOrder])
       THEN Return("Ok") /\ UNCHANGED <<topStatus, last_order_trades_request_time>>
       ELSE /\ fpc' = "reserve"
            /\ topStatus' = status[FillOrder]
            /\ last_order_trades_request_time' = TRUE
            /\ UNCHANGED checkResult
    /\ UNCHANGED <<status, coordVars, auxVars, noteVars,
                   exchange_order_id, progressVars, restType,
                   exitFlag, fCancelled, pending>>

\* reserve_when_available fails, or grants the reservation and the query is issued.
Reserve(granted) ==
    /\ fpc = "reserve"
    /\ IF granted THEN fpc' = "inflight" /\ UNCHANGED checkResult
       ELSE Return("ErrReserve")
    /\ UNCHANGED <<status, coordVars, auxVars, noteVars,
                   exchange_order_id, progressVars, restType,
                   last_order_trades_request_time,
                   exitFlag, fCancelled, topStatus, pending>>

ErrorKinds == {"OrderNotFound", "Transient"}

Responses == UNION {[1..n -> TradeIds] : n \in 0..MaxResponseLen}

\* An exchange error ends the attempt if it is OrderNotFound; else the loop goes on.
AfterExchangeError(kind) ==
    IF kind = "OrderNotFound"
    THEN Return("OkOrderNotFound")
    ELSE fpc' = "top" /\ UNCHANGED checkResult

\* get_order_trades fails, or answers with an exchange error.
TradesResponseError(kind) ==
    /\ fpc = "inflight"
    /\ restType = "MyTrades"
    /\ IF kind = "Failed" THEN Return("ErrExchange") ELSE AfterExchangeError(kind)
    /\ UNCHANGED <<status, coordVars, auxVars, noteVars,
                   exchange_order_id, progressVars, restType,
                   last_order_trades_request_time,
                   exitFlag, fCancelled, topStatus, pending>>

\* get_order_trades answers with the order's trades.
TradesResponse(trades) ==
    /\ fpc = "inflight"
    /\ restType = "MyTrades"
    /\ fpc' = "check"
    /\ pending' = trades
    /\ UNCHANGED <<status, coordVars, auxVars, noteVars,
                   exchange_order_id, progressVars, restType,
                   last_order_trades_request_time,
                   exitFlag, fCancelled, topStatus, checkResult>>

\* Mutant: every trade of the response is handed to the handler unexamined.
CheckTradeWithoutLookup ==
    /\ fpc = "check"
    /\ IF pending = <<>> THEN Return("Ok") /\ UNCHANGED pending
       ELSE fpc' = "handle" /\ UNCHANGED <<checkResult, pending>>
    /\ UNCHANGED <<status, coordVars, auxVars, noteVars,
                   exchange_order_id, progressVars, restType,
                   last_order_trades_request_time,
                   exitFlag, fCancelled, topStatus>>

\* The next trade of the response is looked up among the order's fills.
CheckTrade ==
    /\ fpc = "check"
    /\ IF pending = <<>> THEN Return("Ok") /\ UNCHANGED pending
       ELSE IF Head(pending) \in fills
            THEN pending' = Tail(pending) /\ UNCHANGED <<fpc, checkResult>>
            ELSE fpc' = "handle" /\ UNCHANGED <<checkResult, pending>>
    /\ UNCHANGED <<status, coordVars, auxVars, noteVars,
                   exchange_order_id, progressVars, restType,
                   last_order_trades_request_time,
                   exitFlag, fCancelled, topStatus>>

\* Mutant: the trade is applied whether or not the order has its exchange order id.
HandleTradeWithoutExchangeOrderId(fails) ==
    /\ fpc = "handle"
    /\ IF fails
       THEN /\ Return("ErrFillHandling")
            /\ UNCHANGED <<status, progressVars, noteVars, pending>>
       ELSE /\ ApplyDiscrete(Head(pending))
            /\ pending' = Tail(pending)
            /\ fpc' = "check"
            /\ UNCHANGED checkResult
    /\ UNCHANGED <<coordVars, auxVars, exchange_order_id, restType,
                   last_order_trades_request_time, exitFlag, fCancelled, topStatus>>

\* handle_order_filled_for_restfallback for the trade just looked up.
HandleTrade(fails) ==
    /\ fpc = "handle"
    /\ IF ~exchange_order_id
       THEN /\ Return("ErrNoExchangeOrderId")
            /\ UNCHANGED <<status, progressVars, noteVars, pending>>
       ELSE IF fails
            THEN /\ Return("ErrFillHandling")
                 /\ UNCHANGED <<status, progressVars, noteVars, pending>>
            ELSE /\ ApplyDiscrete(Head(pending))
                 /\ pending' = Tail(pending)
                 /\ fpc' = "check"
                 /\ UNCHANGED checkResult
    /\ UNCHANGED <<coordVars, auxVars, exchange_order_id, restType,
                   last_order_trades_request_time, exitFlag, fCancelled, topStatus>>

\* get_order_info answers with an exchange error.
InfoResponseError(kind) ==
    /\ fpc = "inflight"
    /\ restType = "GetOrderInfo"
    /\ AfterExchangeError(kind)
    /\ UNCHANGED <<status, coordVars, auxVars, noteVars,
                   exchange_order_id, progressVars, restType,
                   last_order_trades_request_time,
                   exitFlag, fCancelled, topStatus, pending>>

\* get_order_info answers with the order's progress, but the order has no
\* exchange order id or handle_order_filled fails.
InfoResponseUnhandled ==
    /\ fpc = "inflight"
    /\ restType = "GetOrderInfo"
    /\ Return(IF ~exchange_order_id THEN "ErrNoExchangeOrderId" ELSE "ErrFillHandling")
    /\ UNCHANGED <<status, coordVars, auxVars, noteVars,
                   exchange_order_id, progressVars, restType,
                   last_order_trades_request_time,
                   exitFlag, fCancelled, topStatus, pending>>

\* get_order_info answers with the order's progress, which is applied as a snapshot.
InfoResponse(total, price) ==
    /\ fpc = "inflight"
    /\ restType = "GetOrderInfo"
    /\ exchange_order_id
    /\ ApplySnapshot(total, price, "none")
    /\ Return("Ok")
    /\ UNCHANGED <<coordVars, auxVars, exchange_order_id, restType,
                   last_order_trades_request_time, exitFlag, fCancelled,
                   topStatus, pending>>

\* The token handed to check_order_fills is triggered.
CancelCheck ==
    /\ ~fCancelled
    /\ fCancelled' = TRUE
    /\ UNCHANGED <<status, coordVars, auxVars, noteVars,
                   exchange_order_id, progressVars, restType,
                   last_order_trades_request_time,
                   fpc, exitFlag, topStatus, pending, checkResult>>

InitFills ==
    /\ status = [o \in Orders |-> "Creating"]
    /\ CoordInit
    /\ FillInit
    /\ AuxInit
    /\ restType \in {"None", "MyTrades", "GetOrderInfo"}

NextFills ==
    \/ \E to \in Statuses : OrderTransition(FillOrder, to)
    \/ ExchangeOrderIdArrives
    \/ \E t \in TradeIds : PushDiscrete(t)
    \/ \E total \in 0..OrderAmount, price \in Prices, reported \in ReportedStatuses :
          PushSnapshot(total, price, reported)
    \/ \E flag \in BOOLEAN, has_metadata \in BOOLEAN : CheckOrderFillsStart(flag, has_metadata)
    \/ LoopTop
    \/ \E granted \in BOOLEAN : Reserve(granted)
    \/ \E kind \in ErrorKinds \cup {"Failed"} : TradesResponseError(kind)
    \/ \E trades \in Responses : TradesResponse(trades)
    \/ CheckTrade
    \/ \E fails \in BOOLEAN : HandleTrade(fails)
    \/ \E kind \in ErrorKinds : InfoResponseError(kind)
    \/ InfoResponseUnhandled
    \/ \E total \in 0..OrderAmount, price \in Prices : InfoResponse(total, price)
    \/ CancelCheck

SpecFills == InitFills /\ [][NextFills]_vars

\* ------------------------------------ get_order_trades, longer responses
\* Responses long enough for a trade id to occur twice next to another one.
MaxLongResponseLen == MaxResponseLen + 1

LongResponses == UNION {[1..n -> TradeIds] : n \in 0..MaxLongResponseLen}

InitTrades ==
    /\ status = [o \in Orders |-> "Created"]
    /\ CoordInit
    /\ FillInit
    /\ AuxInit
    /\ restType = "MyTrades"

\* check_order_fills on an exchange answering with trade lists, next to
\* push ingress and the order's own transitions.
NextTrades ==
    \/ \E to \in Statuses : OrderTransition(FillOrder, to)
    \/ ExchangeOrderIdArrives
    \/ \E t \in TradeIds : PushDiscrete(t)
    \/ \E flag \in BOOLEAN : CheckOrderFillsStart(flag, TRUE)
    \/ LoopTop
    \/ Reserve(TRUE)
    \/ \E trades \in LongResponses : TradesResponse(trades)
    \/ CheckTrade
    \/ \E fails \in BOOLEAN : HandleTrade(fails)
    \/ CancelCheck

SpecTrades == InitTrades /\ [][NextTrades]_vars

\* ------------------------------------- a list of discrete observations
\* The order's progress as a value: what the applier reads and writes.
OrderRecord(st, fs, amount, fee) ==
    [status |-> st, fills |-> fs, filled |-> amount, commission |-> fee]

\* handle_order_filled for one discrete observation, as a function of the order.
DiscreteStep(o, t) ==
    IF DiscreteApplies(o.status, o.fills, t)
    THEN OrderRecord(StatusAfterApply(o.status, o.filled + AmountOf(t), "none"),
                     o.fills \cup {t},
                     o.filled + AmountOf(t),
                     o.commission + FeeOf(t))
    ELSE o

\* The observations of a list applied one after the other.
RECURSIVE ApplyAll(_, _)
ApplyAll(o, seq) ==
    IF seq = <<>> THEN o ELSE ApplyAll(DiscreteStep(o, Head(seq)), Tail(seq))

\* Lists of the order's trades as get_order_trades may answer them, repeats included.
ObservationSeqs == UNION {[1..n -> TradeIds] : n \in 0..MaxObservations}

\* A Created order with its exchange order id, whose get_order_trades query
\* has just been answered with some list of its trades.
InitObserved ==
    /\ status = [o \in Orders |-> "Created"]
    /\ CoordInit
    /\ restType = "MyTrades"
    /\ exchange_order_id = TRUE
    /\ filled = 0
    /\ fills = {}
    /\ cost = 0
    /\ commission = 0
    /\ applied = [t \in TradeIds |-> 0]
    /\ last_order_trades_request_time = TRUE
    /\ exitFlag = FALSE
    /\ fCancelled = FALSE
    /\ topStatus = "Created"
    /\ checkResult = "none"
    /\ fillNotes = <<>>
    /\ terminalNotes = 0
    /\ database_url = FALSE
    /\ RecorderStart(FALSE)
    /\ ChainInit
    /\ execution_notification = FALSE
    /\ FinishInit
    /\ observed \in ObservationSeqs
    /\ pending = observed
    /\ fpc = "check"

\* The poller works through the list while the stream may push the same trades.
NextObserved ==
    \/ CheckTrade
    \/ HandleTrade(FALSE)
    \/ \E i \in 1..Len(observed) : PushDiscrete(observed[i])

SpecObserved == InitObserved /\ [][NextObserved]_vars

\* --------------------------- scenario: get_order_info polling without push
\* A Created order on an exchange polled by get_order_info; nothing is pushed.
InitScenario ==
    /\ status = [o \in Orders |-> "Created"]
    /\ CoordInit
    /\ FillInit
    /\ AuxInit
    /\ restType = "GetOrderInfo"

\* The exchange's answers: a partial fill first, the full amount afterwards.
ScenarioInfoResponse(first, price) ==
    InfoResponse(IF filled = 0 THEN first ELSE OrderAmount, price)

NextScenario ==
    \/ \E flag \in BOOLEAN, has_metadata \in BOOLEAN : CheckOrderFillsStart(flag, has_metadata)
    \/ LoopTop
    \/ \E granted \in BOOLEAN : Reserve(granted)
    \/ ExchangeOrderIdArrives
    \/ InfoResponseError("Transient")
    \/ InfoResponseUnhandled
    \/ \E first \in 1..(OrderAmount - 1), price \in Prices : ScenarioInfoResponse(first, price)
    \/ CancelCheck

SpecScenario == InitScenario /\ [][NextScenario]_vars

\* ------------------------------------------------------------ EventRecorder
\* The receiving half of the data channel is gone: never handed to a task, or
\* dropped with the task that held it.
DataRxDropped == recorder \in {"none", "stopped", "failed"}

\* Mutant: the sender never sees the channel as closed.
DataTxIsClosedNever == FALSE

\* self.data_tx.is_closed()
DataTxIsClosed == DataRxDropped

\* EventRecorder::save for the next event, of some table; get_json may fail.
Save(table, json_ok) ==
    LET e == savedCount + 1 IN
    /\ savedCount < NumEvents
    /\ savedCount' = e
    /\ IF DataTxIsClosed
       THEN /\ saveResult' = [saveResult EXCEPT ![e] = "Ok"]
            /\ UNCHANGED data_tx
       ELSE IF ~json_ok \/ DataRxDropped \/ Len(data_tx) >= ChannelCapacity
            THEN /\ saveResult' = [saveResult EXCEPT ![e] = "Err"]
                 /\ UNCHANGED data_tx
            ELSE /\ saveResult' = [saveResult EXCEPT ![e] = "Ok"]
                 /\ data_tx' = Append(data_tx, <<e, table>>)
    /\ UNCHANGED <<database_url, recorder, events_map, written,
                   shutdown_signal, shutdown_rx, shutdown_rx_taken, shutdown_handle>>
    /\ UNCHANGED <<engineVars, chainVars>>

\* postgres_db::connect succeeds: the recorder enters its loop.
ConnectOk ==
    /\ recorder = "connecting"
    /\ recorder' = "running"
    /\ UNCHANGED <<database_url, data_tx, events_map, written, savedCount, saveResult,
                   shutdown_signal, shutdown_rx, shutdown_rx_taken, shutdown_handle>>
    /\ UNCHANGED <<engineVars, chainVars>>

\* postgres_db::connect fails: the task returns the error, dropping the
\* receiver of the data channel and the sender of the shutdown result.
ConnectFails ==
    /\ recorder = "connecting"
    /\ recorder' = "failed"
    /\ data_tx' = <<>>
    /\ shutdown_rx' = "Err"
    /\ UNCHANGED <<database_url, events_map, written, savedCount, saveResult,
                   shutdown_signal, shutdown_rx_taken, shutdown_handle>>
    /\ UNCHANGED <<engineVars, chainVars>>

\* last_time_to_save.elapsed() < SAVE_TIMEOUT || events.len() >= BATCH_SIZE_TO_SAVE
ShouldSave(stale, len) == ~stale \/ len >= BATCH_SIZE_TO_SAVE

\* The table's entry of events_map, created on first use with the current time.
EntryOrDefault(table) ==
    IF events_map[table].present THEN events_map[table]
    ELSE [present |-> TRUE, events |-> <<>>, stale |-> FALSE]

\* One turn of the loop taking an event off the data channel; save_batch
\* writes the table's buffered events when ShouldSave.
RecorderReceives ==
    /\ recorder = "running"
    /\ data_tx # <<>>
    /\ LET e == Head(data_tx)[1]
           table == Head(data_tx)[2]
           events == Append(EntryOrDefault(table).events, e)
       IN IF ShouldSave(EntryOrDefault(table).stale, Len(events))
          THEN /\ written' = [x \in 1..NumEvents |->
                                 IF \E i \in 1..Len(events) : events[i] = x
                                 THEN written[x] + 1 ELSE written[x]]
               /\ events_map' = [events_map EXCEPT ![table] =
                                    [present |-> TRUE, events |-> <<>>, stale |-> FALSE]]
          ELSE /\ events_map' = [events_map EXCEPT ![table] =
                                    [present |-> TRUE, events |-> events,
                                     stale |-> EntryOrDefault(table).stale]]
               /\ UNCHANGED written
    /\ data_tx' = Tail(data_tx)
    /\ UNCHANGED <<database_url, recorder, savedCount, saveResult,
                   shutdown_signal, shutdown_rx, shutdown_rx_taken, shutdown_handle>>
    /\ UNCHANGED <<engineVars, chainVars>>

\* One turn of the loop taking the shutdown signal: break, report Ok(()), and
\* drop the channel's receiver with whatever the buffers still hold.
RecorderStops ==
    /\ recorder = "running"
    /\ shutdown_signal
    /\ recorder' = "stopped"
    /\ shutdown_rx' = "Ok"
    /\ data_tx' = <<>>
    /\ UNCHANGED <<database_url, events_map, written, savedCount, saveResult,
                   shutdown_signal, shutdown_rx_taken, shutdown_handle>>
    /\ UNCHANGED <<engineVars, chainVars>>

\* SAVE_TIMEOUT passes since the table's last_time_to_save.
TimePasses(table) ==
    /\ events_map[table].present
    /\ ~events_map[table].stale
    /\ events_map' = [events_map EXCEPT ![table].stale = TRUE]
    /\ UNCHANGED <<database_url, recorder, data_tx, written, savedCount, saveResult,
                   shutdown_signal, shutdown_rx, shutdown_rx_taken, shutdown_handle>>
    /\ UNCHANGED <<engineVars, chainVars>>

\* Service::graceful_shutdown: signal the task, hand out the receiver once.
GracefulShutdown ==
    /\ shutdown_handle # "None"
    /\ shutdown_signal' = (shutdown_signal \/ recorder \in {"connecting", "running"})
    /\ shutdown_handle' = IF shutdown_rx_taken THEN "None" ELSE "Some"
    /\ shutdown_rx_taken' = TRUE
    /\ UNCHANGED <<database_url, recorder, data_tx, events_map, written, savedCount,
                   saveResult, shutdown_rx>>
    /\ UNCHANGED <<engineVars, chainVars>>

\* EventRecorder::start(Some(url)) or EventRecorder::start(None).
InitRecorder ==
    /\ status = [o \in Orders |-> "Creating"]
    /\ CoordInit
    /\ FillInit
    /\ restType = "None"
    /\ observed = <<>>
    /\ ChainInit
    /\ execution_notification = FALSE
    /\ FinishInit
    /\ database_url \in BOOLEAN
    /\ RecorderStart(database_url)

NextRecorder ==
    \/ \E table \in Tables, json_ok \in BOOLEAN : Save(table, json_ok)
    \/ ConnectOk
    \/ ConnectFails
    \/ RecorderReceives
    \/ RecorderStops
    \/ \E table \in Tables : TimePasses(table)
    \/ GracefulShutdown

SpecRecorder == InitRecorder /\ [][NextRecorder]_vars

\* The spawned task is run by the executor, and the connection attempt ends.
FairRecorder ==
    /\ SpecRecorder
    /\ WF_vars(RecorderReceives)
    /\ WF_vars(RecorderStops)
    /\ WF_vars(ConnectOk \/ ConnectFails)

\* ------------------------------------------- prepare_price_source_chains
\* A configured currency pair, known by its metadata's base and quote codes.
CurrencyPairs == {p \in [base : Currencies, quote : Currencies] : p.base # p.quote}

\* CurrencyPriceSourceSettings: start and end currency and the configured pairs.
PriceSourceSettings ==
    [start_currency_code : Currencies,
     end_currency_code : Currencies,
     pairs : UNION {[1..n -> CurrencyPairs] : n \in 0..MaxPairs}]

\* add_currency_pair_metadata_to_hashmap: the step that leaves currency_code
\* through the pair.
RebasePriceStep(currency_code, pair) ==
    [pair |-> pair,
     direction |-> IF currency_code = pair.base THEN "ToQuote" ELSE "ToBase"]

\* currency_pair_metadata_by_currency_code[currency_code] after all pairs were
\* added: one step per configured pair that has the currency as base or quote.
RECURSIVE StepsByCurrencyCode(_, _)
StepsByCurrencyCode(pairs, currency_code) ==
    IF pairs = <<>> THEN <<>>
    ELSE LET pair == Head(pairs)
             rest == StepsByCurrencyCode(Tail(pairs), currency_code)
         IN IF currency_code \in {pair.base, pair.quote}
            THEN <<RebasePriceStep(currency_code, pair)>> \o rest
            ELSE rest

\* Where a step leads.
StepTarget(step) ==
    IF step.direction = "ToQuote" THEN step.pair.quote ELSE step.pair.base

\* Vec::retain(|x| x.currency_pair_metadata != step_metadata)
RECURSIVE Retain(_, _)
Retain(list, pair) ==
    IF list = <<>> THEN <<>>
    ELSE IF Head(list).pair = pair THEN Retain(Tail(list), pair)
    ELSE <<Head(list)>> \o Retain(Tail(list), pair)

\* The loop over 0..pairs.len(): by_code is the map, left the iterations left.
RECURSIVE BuildChain(_, _, _, _, _)
BuildChain(by_code, current_currency_code, end_currency_code, steps, left) ==
    IF left = 0 THEN [panic |-> "none", steps |-> steps]
    ELSE LET list == by_code[current_currency_code].list IN
         IF ~by_code[current_currency_code].present
         THEN [panic |-> "Can't find currency pair", steps |-> <<>>]
         ELSE IF Len(list) > 1 THEN [panic |-> "More than 1 symbol", steps |-> <<>>]
         ELSE IF Len(list) = 0 THEN [panic |-> "List is empty", steps |-> <<>>]
         ELSE LET step == list[1]
                  next == StepTarget(step)
              IN IF next = end_currency_code
                 THEN [panic |-> "none", steps |-> Append(steps, step)]
                 ELSE BuildChain([by_code EXCEPT ![next].list = Retain(@, step.pair)],
                                 next, end_currency_code, Append(steps, step), left - 1)

\* The chain prepare_price_source_chains builds for one setting, or its panic.
PreparePriceSourceChain(setting) ==
    IF setting.start_currency_code = setting.end_currency_code
    THEN [panic |-> "none", steps |-> <<>>]
    ELSE LET by_code == [c \in Currencies |->
                           [present |-> \E i \in 1..Len(setting.pairs) :
                                           c \in {setting.pairs[i].base,
                                                   setting.pairs[i].quote},
                            list |-> StepsByCurrencyCode(setting.pairs, c)]]
         IN BuildChain(by_code, setting.start_currency_code, setting.end_currency_code,
                       <<>>, Len(setting.pairs))

\* prepare_price_source_chains is called with the setting.
PreparePriceSourceChains ==
    /\ price_source_chain.panic = "not called"
    /\ price_source_chain' = PreparePriceSourceChain(price_source_setting)
    /\ UNCHANGED <<price_source_setting, engineVars, recorderVars>>

InitChains ==
    /\ status = [o \in Orders |-> "Creating"]
    /\ CoordInit
    /\ FillInit
    /\ restType = "None"
    /\ observed = <<>>
    /\ RecorderStart(FALSE)
    /\ database_url = FALSE
    /\ execution_notification = FALSE
    /\ FinishInit
    /\ price_source_setting \in PriceSourceSettings
    /\ price_source_chain = [panic |-> "not called", steps |-> <<>>]

NextChains == PreparePriceSourceChains

SpecChains == InitChains /\ [][NextChains]_vars

\* -------------------------------------------------------- poll_order_fills
\* Mutant: the poller stops after a check that returned Ok.
PollOrderFillsGoesOnAfterFailureOnly(st, is_cancelled, rest_fills_type, last) ==
    /\ ~OrderIsFinished(st)
    /\ ~is_cancelled
    /\ \/ last = "none"
       \/ rest_fills_type # "None" /\ last \notin {"Ok", "ErrNoMetadata"}

\* The poller's loop runs until the order is terminal or its token is
\* cancelled; after a first check, a configuration error (no REST fill
\* mechanism, no metadata for the order's currency pair) makes it give up.
PollOrderFillsGoesOn(st, is_cancelled, rest_fills_type, last) ==
    /\ ~OrderIsFinished(st)
    /\ ~is_cancelled
    /\ \/ last = "none"
       \/ rest_fills_type # "None" /\ last # "ErrNoMetadata"

\* The poller starts a check of the order's fills.
PollOrderFillsChecks(flag, has_metadata) ==
    /\ poller[FillOrder] = "running"
    /\ PollOrderFillsGoesOn(status[FillOrder], fCancelled, restType, checkResult)
    /\ CheckOrderFillsStart(flag, has_metadata)

\* The poller leaves its loop and the task ends.
PollOrderFillsReturns ==
    /\ fpc \in {"idle", "done"}
    /\ ~PollOrderFillsGoesOn(status[FillOrder], fCancelled, restType, checkResult)
    /\ PollerEnds(FillOrder, checkResult)

\* The state wait_finish_order_work leaves behind once it has spawned the
\* poller for a driver: an order in creation, the poller's task running.
InitPoller ==
    /\ status = [o \in Orders |-> "Creating"]
    /\ pc = [c \in Callers |-> IF c = 1 THEN "drv" ELSE "idle"]
    /\ callOrder = [c \in Callers |-> IF c = 1 THEN FillOrder ELSE 0]
    /\ role = [c \in Callers |-> IF c = 1 THEN "driver" ELSE "none"]
    /\ cancelled = [c \in Callers |-> FALSE]
    /\ result = [c \in Callers |-> "none"]
    /\ rxSeen = [c \in Callers |-> 0]
    /\ wait_finish_order = {FillOrder}
    /\ wait_cancel_order = Orders
    /\ shardLock = [o \in Orders |-> 0]
    /\ sentCount = [o \in Orders |-> 0]
    /\ poller = [o \in Orders |-> "running"]
    /\ pollersStarted = [o \in Orders |-> 1]
    /\ lastCheck = [o \in Orders |-> "none"]
    /\ FillInit
    /\ AuxInit
    /\ restType \in {"None", "MyTrades", "GetOrderInfo"}

\* The symbols of the exchange are not removed: once a check has found the
\* pair's metadata, later checks find it too.
NextPoller ==
    \/ \E to \in Statuses : OrderTransition(FillOrder, to)
    \/ ExchangeOrderIdArrives
    \/ \E t \in TradeIds : PushDiscrete(t)
    \/ \E flag \in BOOLEAN, has_metadata \in BOOLEAN :
          /\ (checkResult # "none" => has_metadata)
          /\ PollOrderFillsChecks(flag, has_metadata)
    \/ PollOrderFillsReturns
    \/ LoopTop
    \/ \E granted \in BOOLEAN : Reserve(granted)
    \/ \E kind \in ErrorKinds \cup {"Failed"} : TradesResponseError(kind)
    \/ \E trades \in Responses : TradesResponse(trades)
    \/ CheckTrade
    \/ \E fails \in BOOLEAN : HandleTrade(fails)
    \/ \E kind \in ErrorKinds : InfoResponseError(kind)
    \/ InfoResponseUnhandled
    \/ \E total \in 0..OrderAmount, price \in Prices : InfoResponse(total, price)
    \/ CancelCheck

SpecPoller == InitPoller /\ [][NextPoller]_vars

\* The executor runs the poller's task, and the rate budget becomes available
\* again and again: the reservation is granted in the end.
FairPoller ==
    /\ SpecPoller
    /\ WF_vars(\E flag \in BOOLEAN : PollOrderFillsChecks(flag, TRUE))
    /\ WF_vars(LoopTop)
    /\ SF_vars(Reserve(TRUE))

\* ------------------------- a wait on an exchange without REST fill mechanism
\* The caller that becomes the driver and one more caller of the same order.
WorkCallers == {1, 2}

\* Nothing has been called yet; the exchange has no REST fill mechanism, and
\* its execution notifications come by websocket or not.
InitWork ==
    /\ status = [o \in Orders |-> "Creating"]
    /\ CoordInit
    /\ FillInit
    /\ restType = "None"
    /\ observed = <<>>
    /\ database_url = FALSE
    /\ RecorderStart(FALSE)
    /\ ChainInit
    /\ FinishInit
    /\ execution_notification \in BOOLEAN

\* wait_order_finish with the poller's task running check_order_fills.
NextWork ==
    \/ \E to \in Statuses : OrderTransition(FillOrder, to)
    \/ \E c \in WorkCallers : Cancel(c)
    \/ \E c \in WorkCallers, pre \in BOOLEAN : Call(c, FillOrder, pre)
    \/ \E c \in WorkCallers : EnterOccupied(c)
    \/ \E c \in WorkCallers : EnterVacant(c)
    \/ \E c \in WorkCallers : DriverReturns(c)
    \/ \E c \in WorkCallers : DriverCeiling(c)
    \/ \E c \in WorkCallers : SubscriberReturns(c)
    \/ \E flag \in BOOLEAN, has_metadata \in BOOLEAN : PollOrderFillsChecks(flag, has_metadata)
    \/ PollOrderFillsReturns
    \/ CancelCheck
    \/ ExchangeOrderIdArrives
    \/ \E t \in TradeIds : PushDiscrete(t)

SpecWork == InitWork /\ [][NextWork]_vars

\* ------------------------------------------------ create_order_finish_future
nonFinishVars == <<status, coordVars, fillVars, noteVars, observed, recorderVars,
                   chainVars, featureVars>>

\* finish_order_future: the entry is removed and () sent through its sender;
\* the result of the send is ignored. Yields the receivers' state afterwards.
ReceiversAfterFinish ==
    IF orders_finish_events # 0 /\ finishRx[orders_finish_events] = "open"
    THEN [finishRx EXCEPT ![orders_finish_events] = "sent"]
    ELSE finishRx

\* create_order_finish_future returns: its receiver is dropped.
FinishReturn(c, r, rx) ==
    /\ finishPc' = [finishPc EXCEPT ![c] = "done"]
    /\ finishResult' = [finishResult EXCEPT ![c] = r]
    /\ finishRx' = [rx EXCEPT ![c] = "none"]

\* The call up to the channel: order.is_finished(), then
\* error_if_cancellation_requested()?.
CreateOrderFinishFuture(c, pre_cancelled) ==
    /\ finishPc[c] = "idle"
    /\ finishCancelled' = [finishCancelled EXCEPT ![c] = pre_cancelled]
    /\ IF OrderIsFinished(status[FillOrder])
       THEN FinishReturn(c, "Ok", finishRx)
       ELSE IF pre_cancelled
            THEN FinishReturn(c, "ErrCancelled", finishRx)
            ELSE /\ finishPc' = [finishPc EXCEPT ![c] = "register"]
                 /\ UNCHANGED <<finishResult, finishRx>>
    /\ UNCHANGED <<orders_finish_events, finishRan, nonFinishVars>>

\* oneshot::channel(), then entry(client_order_id).or_insert(tx): into an
\* occupied entry nothing is inserted and the new sender is dropped.
RegisterFinishEvent(c) ==
    /\ finishPc[c] = "register"
    /\ IF orders_finish_events = 0
       THEN /\ orders_finish_events' = c
            /\ finishRx' = [finishRx EXCEPT ![c] = "open"]
       ELSE /\ UNCHANGED orders_finish_events
            /\ finishRx' = [finishRx EXCEPT ![c] = "closed"]
    /\ finishPc' = [finishPc EXCEPT ![c] = "recheck"]
    /\ UNCHANGED <<finishCancelled, finishResult, finishRan, nonFinishVars>>

\* The wait entered without the second look at the order.
RecheckOrderFinishedSkipped(c) ==
    /\ finishPc[c] = "recheck"
    /\ finishPc' = [finishPc EXCEPT ![c] = "waiting"]
    /\ UNCHANGED <<orders_finish_events, finishRx, finishResult, finishRan,
                   finishCancelled, nonFinishVars>>

\* The second order.is_finished(): finish_order_future and return, or wait.
RecheckOrderFinished(c) ==
    /\ finishPc[c] = "recheck"
    /\ IF OrderIsFinished(status[FillOrder])
       THEN /\ orders_finish_events' = 0
            /\ finishRan' = TRUE
            /\ FinishReturn(c, "Ok", ReceiversAfterFinish)
       ELSE /\ finishPc' = [finishPc EXCEPT ![c] = "waiting"]
            /\ UNCHANGED <<orders_finish_events, finishRx, finishResult, finishRan>>
    /\ UNCHANGED <<finishCancelled, nonFinishVars>>

\* select! { rx, cancellation_token.when_cancelled() }: the receiver resolves
\* with the value sent or with the loss of its sender.
FinishFutureWakes(c) ==
    /\ finishPc[c] = "waiting"
    /\ finishRx[c] \in {"sent", "closed"} \/ finishCancelled[c]
    /\ FinishReturn(c, "Ok", finishRx)
    /\ UNCHANGED <<orders_finish_events, finishCancelled, finishRan, nonFinishVars>>

\* The token handed to one call is triggered.
CancelFinishFuture(c) ==
    /\ finishPc[c] \in {"register", "recheck", "waiting"}
    /\ ~finishCancelled[c]
    /\ finishCancelled' = [finishCancelled EXCEPT ![c] = TRUE]
    /\ UNCHANGED <<orders_finish_events, finishPc, finishRx, finishResult, finishRan,
                   nonFinishVars>>

\* finish_order_future, run for the order once it is finished: with no entry
\* for the order it does nothing (a further such run changes no state).
FinishOrderFuture ==
    /\ OrderIsFinished(status[FillOrder])
    /\ orders_finish_events # 0 \/ ~finishRan
    /\ orders_finish_events' = 0
    /\ finishRx' = ReceiversAfterFinish
    /\ finishRan' = TRUE
    /\ UNCHANGED <<finishPc, finishCancelled, finishResult, nonFinishVars>>

InitFinish ==
    /\ status = [o \in Orders |-> "Creating"]
    /\ CoordInit
    /\ FillInit
    /\ AuxInit
    /\ restType = "None"

NextFinish ==
    \/ \E to \in Statuses : OrderTransition(FillOrder, to)
    \/ \E c \in FinishCallers, pre_cancelled \in BOOLEAN :
          CreateOrderFinishFuture(c, pre_cancelled)
    \/ \E c \in FinishCallers : RegisterFinishEvent(c)
    \/ \E c \in FinishCallers : RecheckOrderFinished(c)
    \/ \E c \in FinishCallers : FinishFutureWakes(c)
    \/ \E c \in FinishCallers : CancelFinishFuture(c)
    \/ FinishOrderFuture

SpecFinish == InitFinish /\ [][NextFinish]_vars

\* A call that was made is run by the executor up to its return; the calls,
\* the tokens, the order's transitions and the runs of finish_order_future
\* carry no fairness.
FairFinish ==
    /\ SpecFinish
    /\ \A c \in FinishCallers : WF_vars(RegisterFinishEvent(c))
    /\ \A c \in FinishCallers : WF_vars(RecheckOrderFinished(c))
    /\ \A c \in FinishCallers : WF_vars(FinishFutureWakes(c))

\* Tasks that can run are run by the executor; calls, cancellations, order
\* transitions and the ceiling are the environment's and carry no fairness.
Fairness ==
    /\ \A c \in Callers : WF_vars(EnterOccupied(c))
    /\ \A c \in Callers : WF_vars(EnterVacant(c))
    /\ \A c \in Callers : WF_vars(DriverReturns(c))
    /\ \A c \in Callers : WF_vars(SubscriberReturns(c))
    /\ \A o \in Orders : WF_vars(\E check \in CheckResults : PollerEnds(o, check))

FairSpec == Spec /\ Fairness

\* ------------------------------------------------------------------ claims
ActiveDrivers(o) == {c \in Callers : pc[c] = "drv" /\ callOrder[c] = o}

DriversEver(o) == {c \in Callers : role[c] = "driver" /\ callOrder[c] = o}

DriverFinished(o) == \E d \in DriversEver(o) : pc[d] = "done"

\* C1: for concurrent calls on one order id there is at most one active driver,
\* a poller is started by drivers only (subscribers start none), and a caller
\* is a subscriber only of an existing session.
C1_SingleFlight ==
    \A o \in Orders :
        /\ Cardinality(ActiveDrivers(o)) <= 1
        /\ pollersStarted[o] = Cardinality(DriversEver(o))
        /\ (poller[o] = "running" => pollersStarted[o] = 1)
        /\ \A c \in Callers :
              pc[c] = "sub" /\ callOrder[c] = o => o \in wait_finish_order

C1_Witness ==
    \E d, s, e \in Callers :
        /\ pc[d] = "drv" /\ pc[s] = "sub" /\ pc[e] = "entry"
        /\ callOrder[d] = callOrder[s] /\ callOrder[e] = callOrder[d]
        /\ pollersStarted[callOrder[d]] = 1

\* C2: the session map holds no entry for an order whose driver has left
\* wait_order_finish: every entry belongs to a driver still in its scope.
C2_SessionRemovedOnExit ==
    \A o \in wait_finish_order : ActiveDrivers(o) # {}

\* C3 as claimed: a call on an order in any terminal state returns at once,
\* creating no session and starting no poller.
C3_TerminalReturnsAtOnce ==
    [][\A c \in Callers :
          (pc[c] = "idle" /\ pc'[c] # "idle" /\ OrderIsFinished(status[callOrder'[c]]))
          => /\ pc'[c] = "done"
             /\ wait_finish_order' = wait_finish_order
             /\ pollersStarted' = pollersStarted]_vars

\* C3 amended: a call on a FailedToCreate order returns Ok at once, creating no
\* session and starting no poller; a call on an order in any other status,
\* terminal or not, goes on to the session map.
C3_FailedToCreateReturnsAtOnce ==
    [][\A c \in Callers :
          (pc[c] = "idle" /\ pc'[c] # "idle")
          => IF status[callOrder'[c]] = "FailedToCreate"
             THEN /\ pc'[c] = "done" /\ result'[c] = "Ok" /\ role'[c] = "early"
                  /\ wait_finish_order' = wait_finish_order
                  /\ pollersStarted' = pollersStarted
             ELSE pc'[c] = "entry"]_vars

C3_Witness ==
    \E c \in Callers :
        /\ pc[c] = "done" /\ role[c] = "early" /\ result[c] = "Ok"
        /\ status[callOrder[c]] = "FailedToCreate"
        /\ wait_finish_order = {} /\ pollersStarted[callOrder[c]] = 0

\* C4: once the order is terminal and its driver has finished, every call for
\* the order that is still inside wait_order_finish returns, cancelled or not.
C4_WaitersReleased ==
    \A c \in Callers :
        (/\ pc[c] \in {"entry", "sub"}
         /\ OrderIsFinished(status[callOrder[c]])
         /\ DriverFinished(callOrder[c]))
        ~> (pc[c] = "done")

\* C5: a driver or subscriber whose token is triggered while it waits returns,
\* and returns Ok, whatever the order's status.
C5_CancelledWaitReturnsOk ==
    \A c \in Callers :
        (cancelled[c] /\ pc[c] \in {"sub", "drv"})
        ~> (pc[c] = "done" /\ result[c] = "Ok")

C5_Witness ==
    \E d, s \in Callers :
        /\ role[d] = "driver" /\ pc[d] = "done" /\ cancelled[d] /\ result[d] = "Ok"
        /\ role[s] = "subscriber" /\ pc[s] = "done" /\ cancelled[s] /\ result[s] = "Ok"
        /\ callOrder[d] = callOrder[s]
        /\ ~OrderIsFinished(status[callOrder[d]])
        /\ rxSeen[s] = sentCount[callOrder[s]]

RECURSIVE SumAmounts(_)
SumAmounts(ts) ==
    IF ts = {} THEN 0
    ELSE LET t == CHOOSE x \in ts : TRUE IN AmountOf(t) + SumAmounts(ts \ {t})

PollerPastTop == fpc \in {"reserve", "inflight", "check", "handle"}

PollerApplies == fpc = "handle"

\* C6: whatever the interleaving of the poller's lookup-then-handle sequence
\* with push ingress, no trade id is applied to the order more than once.
C6_TradeAppliedOnce ==
    \A t \in TradeIds : applied[t] <= 1

C6_Witness ==
    /\ fpc = "handle"
    /\ pending # <<>>
    /\ Head(pending) \in fills
    /\ applied[Head(pending)] = 1

\* C7: no step decreases the order's filled amount.
C7_FilledNeverDecreases ==
    [][filled' >= filled]_vars

C7_Witness ==
    /\ fills # {}
    /\ filled > SumAmounts(fills)
    /\ fpc = "done"

\* C8 as claimed: no step changes the progress of a terminal order, and the
\* poller never hands a fill to the applier in an iteration at whose top it
\* found the order in a terminal state.
C8_TerminalOrderUntouched ==
    /\ [][OrderIsFinished(status[FillOrder])
          => UNCHANGED <<filled, cost, commission, fills>>]_vars
    /\ [](PollerApplies => ~OrderIsFinished(topStatus))

\* C8 amended: no step changes the progress of a terminal order, and the poller
\* is never past the top of an iteration at which it found the order Completed,
\* or, with the exit flag set, in any terminal state.
C8_FinishedIterationUntouched ==
    /\ [][OrderIsFinished(status[FillOrder])
          => UNCHANGED <<filled, cost, commission, fills>>]_vars
    /\ [](PollerPastTop =>
            /\ topStatus # "Completed"
            /\ (exitFlag => ~OrderIsFinished(topStatus)))

C8_Witness ==
    /\ fpc = "handle"
    /\ topStatus = "Canceled"
    /\ ~exitFlag
    /\ status[FillOrder] = "Canceled"
    /\ filled > 0

\* C9: the status moves only Creating -> {Created, FailedToCreate} and
\* Created -> {Completed, Canceled, Expired}; a terminal status never changes.
C9_MonotonicTransitions ==
    [][status'[FillOrder] # status[FillOrder] =>
          \/ /\ status[FillOrder] = "Creating"
             /\ status'[FillOrder] \in {"Created", "FailedToCreate"}
          \/ /\ status[FillOrder] = "Created"
             /\ status'[FillOrder] \in {"Completed", "Canceled", "Expired"}]_vars

C9_Witness ==
    /\ status[FillOrder] = "Completed"
    /\ filled = OrderAmount
    /\ fills = TradeIds

\* C10: whatever the poller's exchange queries ended with, a finished call
\* returned Ok; the only error a call returns is the expiry of the ceiling.
C10_OnlyCeilingIsAnError ==
    \A c \in Callers :
        /\ pc[c] = "done" => result[c] \in {"Ok", "ErrCeilingExpired"}
        /\ result[c] = "ErrCeilingExpired" => role[c] = "driver" /\ ~cancelled[c]

C10_Witness ==
    \E c \in Callers :
        /\ pc[c] = "done" /\ role[c] = "driver" /\ result[c] = "Ok"
        /\ lastCheck[callOrder[c]] = "ErrFillHandling"

\* C11: a get_order_info answer reaches the applier as a snapshot of the
\* answer's filled amount and average price. It changes the order only if that
\* amount strictly exceeds the stored one; when it does, the stored amount and
\* average price become the incoming ones and the delta reported is incoming
\* minus stored; when it does not, order and notifications are unchanged.
C11_SnapshotHighWaterMark ==
    [][fpc = "inflight" /\ restType = "GetOrderInfo" =>
          \A total \in 0..OrderAmount, price \in Prices :
              InfoResponse(total, price) =>
                  /\ total <= filled => UNCHANGED <<status, progressVars, noteVars>>
                  /\ filled' # filled =>
                        /\ total > filled
                        /\ filled' = total
                        /\ cost' = total * price
                        /\ fillNotes' = Append(fillNotes, total - filled)
                  /\ filled' = filled => UNCHANGED <<status, progressVars, noteVars>>]_vars

C11_Witness ==
    /\ restType = "GetOrderInfo"
    /\ fpc = "done" /\ checkResult = "Ok"
    /\ fills = {}
    /\ Len(fillNotes) = 2
    /\ fillNotes[1] = 1
    /\ fillNotes[2] = 1
    /\ filled = 2
    /\ cost = 4
    /\ status[FillOrder] = "Created"

Range(seq) == {seq[i] : i \in 1..Len(seq)}

RECURSIVE SumFees(_)
SumFees(ts) ==
    IF ts = {} THEN 0
    ELSE LET t == CHOOSE x \in ts : TRUE IN FeeOf(t) + SumFees(ts \ {t})

CreatedOrder == OrderRecord("Created", {}, 0, 0)

\* C12: for a list of discrete observations, repeats included, every
\* permutation of the list leaves the same filled amount and the same
\* commission, the filled amount is the sum of the amounts of the distinct
\* trade ids, and that is what the order holds once the poller is through the
\* list, with or without the stream pushing the same trades in between.
C12_PermutationInvariant ==
    LET n == Len(observed)
        final == ApplyAll(CreatedOrder, observed)
    IN /\ \A p \in Permutations(1..n) :
             LET q == ApplyAll(CreatedOrder, [i \in 1..n |-> observed[p[i]]])
             IN q.filled = final.filled /\ q.commission = final.commission
       /\ final.filled = SumAmounts(Range(observed))
       /\ final.commission = SumFees(Range(observed))
       /\ fpc = "done" =>
             /\ checkResult = "Ok"
             /\ filled = final.filled
             /\ commission = final.commission
             /\ fills = Range(observed)

C12_Witness ==
    /\ fpc = "done"
    /\ Len(observed) >= 3
    /\ observed[1] = observed[3]
    /\ observed[1] # observed[2]
    /\ filled = OrderAmount
    /\ commission = NumTrades
    /\ Len(fillNotes) = 2

\* C13: with no push and get_order_info polling of a Created order, a first
\* answer with a partial amount and a second answer with the full amount end
\* with the order Completed and filled in full, one terminal notification, and
\* exactly two fill notifications: the partial amount, then the remainder.
C13_TwoSnapshotsComplete ==
    /\ Len(fillNotes) <= 2
    /\ Len(fillNotes) = 1 =>
          /\ status[FillOrder] = "Created"
          /\ filled = fillNotes[1]
          /\ filled \in 1..(OrderAmount - 1)
          /\ terminalNotes = 0
    /\ Len(fillNotes) = 2 =>
          /\ status[FillOrder] = "Completed"
          /\ filled = OrderAmount
          /\ fillNotes[1] \in 1..(OrderAmount - 1)
          /\ fillNotes[2] = OrderAmount - fillNotes[1]
          /\ terminalNotes = 1
    /\ status[FillOrder] = "Completed" => Len(fillNotes) = 2

C13_Witness ==
    /\ fpc = "done" /\ checkResult = "Ok"
    /\ status[FillOrder] = "Completed"
    /\ filled = OrderAmount
    /\ fillNotes = <<1, OrderAmount - 1>>
    /\ terminalNotes = 1

\* C14: once the order is Completed and filled in full (by push ingress),
\* a get_order_info answer to a query still in flight that carries a lower
\* filled amount changes nothing: status, progress and both kinds of
\* notification stay as they are.
C14_StaleSnapshotIsNoOp ==
    [][(/\ fpc = "inflight" /\ restType = "GetOrderInfo"
        /\ status[FillOrder] = "Completed" /\ filled = OrderAmount) =>
          \A total \in 0..(OrderAmount - 1), price \in Prices :
              InfoResponse(total, price) =>
                  /\ UNCHANGED <<status, progressVars, noteVars>>
                  /\ fpc' = "done" /\ checkResult' = "Ok"]_vars

C14_Witness ==
    /\ fpc = "inflight" /\ restType = "GetOrderInfo"
    /\ topStatus = "Created"
    /\ status[FillOrder] = "Completed" /\ filled = OrderAmount
    /\ fills = TradeIds
    /\ terminalNotes = 1
    /\ ENABLED InfoResponse(1, 1)

\* C15: when the exchange answers the poller's query for a Created order with
\* OrderNotFound, the order becomes Canceled, one terminal notification is
\* sent, and check_order_fills returns without error and without another query.
C15_OrderNotFoundCancelsOrder ==
    [][(/\ fpc = "inflight" /\ status[FillOrder] = "Created"
        /\ (InfoResponseError("OrderNotFound") \/ TradesResponseError("OrderNotFound"))) =>
              /\ status'[FillOrder] = "Canceled"
              /\ terminalNotes' = terminalNotes + 1
              /\ fpc' = "done"
              /\ checkResult' \in {"Ok", "OkOrderNotFound"}]_vars

RECURSIVE SumSeq(_)
SumSeq(seq) == IF seq = <<>> THEN 0 ELSE Head(seq) + SumSeq(Tail(seq))

\* C16: whatever the interleaving of the poller and push ingress, a step that
\* changes the order's progress reports exactly one fill, carrying the change
\* of the filled amount, and a step that leaves the progress as it is reports
\* none; so the deltas reported always add up to the filled amount.
C16_AppliedFillReportedOnce ==
    /\ [][IF progressVars' # progressVars
          THEN fillNotes' = Append(fillNotes, filled' - filled)
          ELSE fillNotes' = fillNotes]_vars
    /\ [](SumSeq(fillNotes) = filled)

C16_Witness ==
    /\ restType = "MyTrades"
    /\ fpc = "done" /\ checkResult = "Ok"
    /\ \A t \in TradeIds : applied[t] = 1
    /\ fillNotes = <<1, 2>>
    /\ filled = OrderAmount
    /\ status[FillOrder] = "Completed"

\* C17 as claimed: the order enters a terminal status once, with one terminal
\* notification; nothing changes a terminal order; and the poller, finding the
\* order in a terminal status at the top of its loop, exits.
C17_LoserExitsAtNextCheck ==
    /\ [](terminalNotes = IF OrderIsFinished(status[FillOrder]) THEN 1 ELSE 0)
    /\ [][OrderIsFinished(status[FillOrder])
          => UNCHANGED <<status, progressVars, noteVars>>]_vars
    /\ [][(fpc = "top" /\ OrderIsFinished(status[FillOrder]) /\ LoopTop)
          => fpc' = "done"]_vars

\* C17 amended: the order enters a terminal status once, with one terminal
\* notification; nothing changes a terminal order; the poller exits at the top
\* of its loop when it finds the order Completed, or in any terminal status
\* with the exit flag set, and goes on to its query when it finds the order
\* Canceled, Expired or FailedToCreate with the flag not set.
C17_LoserExitsOrQueriesInVain ==
    /\ [](terminalNotes = IF OrderIsFinished(status[FillOrder]) THEN 1 ELSE 0)
    /\ [][OrderIsFinished(status[FillOrder])
          => UNCHANGED <<status, progressVars, noteVars>>]_vars
    /\ [][(fpc = "top" /\ OrderIsFinished(status[FillOrder]) /\ LoopTop) =>
          IF status[FillOrder] = "Completed" \/ exitFlag \/ fCancelled
          THEN fpc' = "done" /\ checkResult' = "Ok"
          ELSE fpc' = "reserve"]_vars

C17_Witness ==
    /\ status[FillOrder] = "Canceled"
    /\ terminalNotes = 1
    /\ exitFlag
    /\ fpc = "done" /\ checkResult = "Ok"
    /\ topStatus = "Created"
    /\ restType = "MyTrades"
    /\ filled \in 1..(OrderAmount - 1)

\* C18: with a database url and no shutdown, an event for which save returned
\* Ok is eventually written to the database, and no event is written twice,
\* however long ago the table's last batch was written and however few events
\* are buffered for the table.
C18_SavedEventIsWritten ==
    /\ [](\A e \in 1..NumEvents : written[e] <= 1)
    /\ \A e \in 1..NumEvents :
          (database_url /\ saveResult[e] = "Ok")
          ~> (\/ written[e] = 1
              \/ shutdown_signal
              \/ recorder \in {"stopped", "failed"})

\* C19: without a database url every save returns Ok, nothing is queued,
\* buffered or written, and the receiver graceful_shutdown hands out has
\* already resolved to Ok(()).
C19_NoUrlRecordsNothing ==
    ~database_url =>
        /\ \A e \in 1..NumEvents :
              /\ saveResult[e] = (IF e <= savedCount THEN "Ok" ELSE "none")
              /\ written[e] = 0
        /\ data_tx = <<>>
        /\ \A t \in Tables : ~events_map[t].present /\ events_map[t].events = <<>>
        /\ recorder = "none"
        /\ shutdown_rx = "Ok"
        /\ shutdown_handle \in {"none", "Some", "None"}
        /\ shutdown_handle # "none" => shutdown_rx_taken

C19_Witness ==
    /\ ~database_url
    /\ savedCount = NumEvents
    /\ \A e \in 1..NumEvents : saveResult[e] = "Ok"
    /\ shutdown_handle = "Some"
    /\ shutdown_rx = "Ok"

\* The currency a step converts from.
StepSource(step) ==
    IF step.direction = "ToQuote" THEN step.pair.base ELSE step.pair.quote

\* The configured pairs connect currency a to currency b.
RECURSIVE ReachableWithin(_, _, _, _)
ReachableWithin(pairs, a, b, hops) ==
    \/ a = b
    \/ /\ hops > 0
       /\ \E i \in 1..Len(pairs) :
             \/ pairs[i].base = a /\ ReachableWithin(pairs, pairs[i].quote, b, hops - 1)
             \/ pairs[i].quote = a /\ ReachableWithin(pairs, pairs[i].base, b, hops - 1)

\* C20: prepare_price_source_chains either panics or returns a connected
\* chain: no steps when start equals end; otherwise the first step converts
\* from the start currency, every step's direction is ToQuote exactly when it
\* converts from its pair's base, each step converts from what the step before
\* converted to, the last step converts to the end currency, and no pair is
\* used twice; and it panics when the pairs do not connect start to end.
C20_ChainConnectsOrPanics ==
    LET setting == price_source_setting
        chain == price_source_chain
        steps == chain.steps
        n == Len(steps)
    IN chain.panic # "not called" =>
         /\ chain.panic = "none" =>
               /\ setting.start_currency_code = setting.end_currency_code => n = 0
               /\ setting.start_currency_code # setting.end_currency_code =>
                     /\ n >= 1
                     /\ StepSource(steps[1]) = setting.start_currency_code
                     /\ StepTarget(steps[n]) = setting.end_currency_code
               /\ \A i \in 1..n :
                     /\ \E j \in 1..Len(setting.pairs) : setting.pairs[j] = steps[i].pair
                     /\ steps[i].direction = "ToQuote" <=> StepSource(steps[i]) = steps[i].pair.base
               /\ \A i \in 1..(n - 1) : StepTarget(steps[i]) = StepSource(steps[i + 1])
               /\ \A i, j \in 1..n : i # j => steps[i].pair # steps[j].pair
         /\ ~ReachableWithin(setting.pairs, setting.start_currency_code,
                             setting.end_currency_code, Len(setting.pairs))
               => chain.panic # "none"

\* C21: check_order_fills finding the order Creating at the top of its loop
\* returns Ok at once and leaves the order's status, progress, notifications
\* and request time as they are; while the order is Creating the poller is
\* never at a reservation, a query or a fill application.
C21_CreatingOrderNotPolled ==
    /\ [][(fpc = "top" /\ status[FillOrder] = "Creating" /\ LoopTop) =>
             /\ fpc' = "done" /\ checkResult' = "Ok"
             /\ UNCHANGED <<status, progressVars, noteVars,
                            last_order_trades_request_time>>]_vars
    /\ [](status[FillOrder] = "Creating" =>
             /\ ~PollerPastTop
             /\ ~last_order_trades_request_time
             /\ filled = 0 /\ fills = {} /\ fillNotes = <<>>
             /\ checkResult \in {"none", "Ok", "ErrNoMetadata"})

C21_Witness ==
    /\ status[FillOrder] = "Creating"
    /\ restType = "MyTrades"
    /\ ~fCancelled
    /\ fpc = "done" /\ checkResult = "Ok"
    /\ ~last_order_trades_request_time

\* C22: no failure of a poll iteration other than OrderNotFound ends
\* check_order_fills: a query that fails or is answered with an error, and a
\* fill whose handling fails, lead back to the top of the loop, so a call that
\* has issued a query ends only with Ok.
C22_FailureDoesNotEndAttempt ==
    [][(fpc \in {"inflight", "check", "handle"} /\ fpc' # fpc) =>
          \/ fpc' \in {"top", "check", "handle"}
          \/ fpc' = "done" /\ checkResult' \in {"Ok", "OkOrderNotFound"}]_vars

C24_TerminalOrderExitsAtTop ==
    /\ [][(fpc = "top" /\ OrderIsFinished(status[FillOrder]) /\ LoopTop) =>
             /\ fpc' = "done" /\ checkResult' = "Ok"
             /\ UNCHANGED last_order_trades_request_time]_vars
    /\ [](fpc \in {"reserve", "inflight"} => ~OrderIsFinished(topStatus))

\* C24 amended: at the top of an iteration the poller returns Ok without
\* reserving or querying when it finds the order Completed, or in any terminal
\* status with the exit flag set; finding it Canceled, Expired or
\* FailedToCreate with the flag not set (and its token not cancelled), it goes
\* on to the reservation.
C24_FinishedOrderExitsAtTop ==
    /\ [][(fpc = "top" /\ OrderIsFinished(status[FillOrder]) /\ LoopTop) =>
             IF status[FillOrder] = "Completed" \/ exitFlag \/ fCancelled
             THEN /\ fpc' = "done" /\ checkResult' = "Ok"
                  /\ UNCHANGED <<last_order_trades_request_time, topStatus>>
             ELSE /\ fpc' = "reserve"
                  /\ last_order_trades_request_time'
                  /\ topStatus' = status[FillOrder]]_vars
    /\ [](fpc \in {"reserve", "inflight"} =>
             /\ topStatus # "Completed"
             /\ (exitFlag => ~OrderIsFinished(topStatus)))

C24_Witness ==
    /\ fpc = "top"
    /\ status[FillOrder] = "Expired"
    /\ exitFlag
    /\ ~fCancelled
    /\ restType = "GetOrderInfo"
    /\ ENABLED LoopTop

\* C25: the poller's query is in flight only from the step that ends a wait
\* for a reservation, that wait is entered only from the top of an iteration,
\* and it ends in one query or in the failure of the call: so every query has
\* a reservation of its own, made in the same iteration.
C25_QueryHasItsReservation ==
    /\ [][(fpc' = "inflight" /\ fpc # "inflight") => fpc = "reserve"]_vars
    /\ [][(fpc' = "reserve" /\ fpc # "reserve") => fpc = "top"]_vars
    /\ [][(fpc = "reserve" /\ fpc' # "reserve") =>
             \/ fpc' = "inflight"
             \/ fpc' = "done" /\ checkResult' = "ErrReserve"]_vars
    /\ [][(fpc = "inflight" /\ fpc' # "inflight") => fpc' \in {"top", "check", "done"}]_vars

C25_Witness ==
    /\ fpc = "inflight"
    /\ restType = "MyTrades"
    /\ topStatus = "Created"
    /\ fills # {}
    /\ last_order_trades_request_time

\* C26: once the token of check_order_fills is cancelled, no step begins an
\* iteration or issues a query, and the call, once a query that was in flight
\* has been answered, returns Ok.
C26_CancelledPollerStops ==
    /\ [][(fCancelled /\ fpc = "top" /\ fpc' # fpc) =>
             fpc' = "done" /\ checkResult' = "Ok"]_vars
    /\ [][(fCancelled /\ fpc' = "inflight") => fpc = "inflight"]_vars
    /\ [][(fCancelled /\ fpc \in {"inflight", "check", "handle"} /\ fpc' = "done") =>
             checkResult' \in {"Ok", "OkOrderNotFound"}]_vars

\* C27: on an exchange with RestFillsType::None check_order_fills returns at
\* once, never reaching a reservation or a query and leaving the order's
\* status, progress and notifications as they are; the poller's task then ends
\* with the order as it was, and the driver's wait ends only when its token is
\* cancelled, when the order is terminal, or with the expiry of the ceiling.
C27_NoRestFillsNoPolling ==
    /\ [](restType = "None" =>
             /\ fpc \in {"idle", "done"}
             /\ checkResult \in {"none", "Ok", "ErrNoMetadata"}
             /\ ~last_order_trades_request_time
             /\ pending = <<>>)
    /\ [][(restType = "None" /\ (fpc' # fpc \/ poller' # poller)) =>
             UNCHANGED <<status, progressVars, noteVars>>]_vars
    /\ [][\A c \in Callers :
             (restType = "None" /\ pc[c] = "drv" /\ pc'[c] = "done") =>
                 \/ cancelled[c]
                 \/ OrderIsFinished(status[callOrder[c]])
                 \/ result'[c] = "ErrCeilingExpired"]_vars

C27_Witness ==
    \E d \in Callers :
        /\ restType = "None"
        /\ pc[d] = "drv" /\ ~cancelled[d]
        /\ poller[FillOrder] = "done" /\ lastCheck[FillOrder] = "Ok"
        /\ fpc = "done" /\ checkResult = "Ok"
        /\ status[FillOrder] = "Created"
        /\ filled \in 1..(OrderAmount - 1)

\* C28 as claimed: a poller is started for a driver exactly when execution
\* notifications do not come by websocket; where they do, becoming the driver
\* starts none.
C28_PollerOnlyWithoutNotifications ==
    \A o \in Orders :
        pollersStarted[o] =
            IF execution_notification THEN 0 ELSE Cardinality(DriversEver(o))

\* C28 amended: becoming the driver starts one poller task for the order,
\* whether execution notifications come by websocket or not; nothing else
\* starts one.
C28_PollerForEveryDriver ==
    /\ [](\A o \in Orders : pollersStarted[o] = Cardinality(DriversEver(o)))
    /\ [][\A c \in Callers :
             (pc[c] = "entry" /\ pc'[c] = "drv") =>
                 /\ poller'[callOrder[c]] = "running"
                 /\ pollersStarted'[callOrder[c]] = pollersStarted[callOrder[c]] + 1]_vars
    /\ [][pollersStarted' # pollersStarted =>
             \E c \in Callers : pc[c] = "entry" /\ pc'[c] = "drv"]_vars

C28_Witness ==
    \E d \in Callers :
        /\ execution_notification
        /\ pc[d] = "drv" /\ role[d] = "driver"
        /\ poller[callOrder[d]] = "running"
        /\ pollersStarted[callOrder[d]] = 1

\* C29: an order whose filled amount equals its requested amount is in a
\* terminal status; a step that changes the progress and brings the filled
\* amount to the requested amount leaves the order Completed, or in the
\* terminal status the observation reported; and a pushed observation that is
\* applied and reports a terminal status leaves the order in that status.
C29_FullAmountIsTerminal ==
    /\ [](filled = OrderAmount => OrderIsFinished(status[FillOrder]))
    /\ [][(progressVars' # progressVars /\ filled' = OrderAmount) =>
             status'[FillOrder] \in {"Completed"} \cup (ReportedStatuses \ {"none"})]_vars
    /\ [][(status[FillOrder] = "Created" /\ filled' # filled) =>
             \A total \in 0..OrderAmount, price \in Prices,
                reported \in ReportedStatuses \ {"none"} :
                   PushSnapshot(total, price, reported) => status'[FillOrder] = reported]_vars

C29_Witness ==
    /\ restType = "GetOrderInfo"
    /\ fpc = "done" /\ checkResult = "Ok"
    /\ fills = {}
    /\ filled = OrderAmount
    /\ status[FillOrder] = "Completed"
    /\ terminalNotes = 1
    /\ Len(fillNotes) = 1

\* C30: a call of create_order_finish_future whose token is cancelled, be it
\* before the call or during the wait, returns Ok: no finished call with a
\* cancelled token has returned an error.
C30_CancelledFinishFutureReturnsOk ==
    \A c \in FinishCallers :
        (finishPc[c] = "done" /\ finishCancelled[c]) => finishResult[c] = "Ok"

\* C31: create_order_finish_future returns only when the order is finished or
\* the call's cancellation token has been triggered, however many calls are
\* made for the order: every step in which a call returns is taken with the
\* order finished or that call's token cancelled.
C31_ReturnsOnlyFinishedOrCancelled ==
    [][\A c \in FinishCallers :
          (finishPc[c] # "done" /\ finishPc'[c] = "done")
              => (OrderIsFinished(status'[FillOrder]) \/ finishCancelled'[c])]_vars

\* C32: no wake-up is lost in create_order_finish_future. A call made for an
\* order that is already finished returns in its first step; a call that
\* has passed its first check returns, with no help from its token, once
\* finish_order_future has run for the finished order, whether that run came
\* before the call's registration or after it.
C32_NoWakeUpLost ==
    /\ [][\A c \in FinishCallers :
             (finishPc[c] = "idle" /\ finishPc'[c] # "idle"
                  /\ OrderIsFinished(status[FillOrder]))
                 => (finishPc'[c] = "done" /\ finishResult'[c] = "Ok")]_vars
    /\ \A c \in FinishCallers :
           (finishPc[c] \in {"register", "recheck", "waiting"} /\ finishRan)
               ~> (finishPc[c] = "done")

\* finish_order_future ran for the finished order after one call registered
\* (its value is sent, the call not yet resumed) and before another call,
\* past its first check, registered in turn; no token is cancelled.
C32_Witness ==
    \E c, d \in FinishCallers :
        /\ finishPc[c] = "waiting"
        /\ finishRx[c] = "sent"
        /\ finishPc[d] = "recheck"
        /\ orders_finish_events = d
        /\ finishRan
        /\ \A e \in FinishCallers : ~finishCancelled[e]

\* C33: once a call of create_order_finish_future has returned, by whatever
\* path, orders_finish_events holds no entry for the order unless another
\* call for the order is still waiting.
C33_NoEntryLeftBehind ==
    ((\E c \in FinishCallers : finishPc[c] = "done") /\ orders_finish_events # 0)
        => \E d \in FinishCallers : finishPc[d] \in {"recheck", "waiting"}

\* C34: a subscriber blocked in wait_order_finish holds no exclusive access
\* to the session map: while subscribers wait, the shard of their order is
\* unlocked, and every caller that has reached the map can go on to look up
\* or insert its session.
C34_BlockedSubscriberHoldsNoLock ==
    /\ \A c \in Callers : pc[c] = "sub" => shardLock[callOrder[c]] # c
    /\ \A c \in Callers :
           pc[c] = "entry" => ENABLED (EnterOccupied(c) \/ EnterVacant(c))

\* C35: a check_order_fills call made with the exit flag false does not take
\* a Canceled, Expired or FailedToCreate order for finished: at the top of an
\* iteration (its token not cancelled) it goes on to ask for a reservation,
\* and the granted reservation is followed by the query. With the flag true
\* the iteration returns Ok at once for every terminal status, and for a
\* Completed order it does so whatever the flag.
C35_ExitFlagDecidesForTerminalOrder ==
    /\ [][(fpc = "top" /\ fpc' # "top" /\ ~fCancelled
              /\ OrderIsFinished(status[FillOrder])) =>
             IF status[FillOrder] # "Completed" /\ ~exitFlag
             THEN fpc' = "reserve" /\ checkResult' = "none"
             ELSE fpc' = "done" /\ checkResult' = "Ok"]_vars
    /\ [][(fpc = "reserve" /\ fpc' # "reserve") =>
             \/ fpc' = "inflight" /\ topStatus' = topStatus
             \/ fpc' = "done" /\ checkResult' = "ErrReserve"]_vars
    /\ [](fpc \in {"reserve", "inflight"} =>
             \/ ~OrderIsFinished(topStatus)
             \/ topStatus # "Completed" /\ ~exitFlag)

\* The exchange is being queried for the fills of an order the iteration
\* found Canceled, in a call with the flag false and no cancellation.
C35_Witness ==
    /\ fpc = "inflight"
    /\ topStatus = "Canceled"
    /\ status[FillOrder] = "Canceled"
    /\ ~exitFlag
    /\ ~fCancelled

\* C36: while the order has no exchange order id, no REST-fallback
\* observation is applied to it. No step of the poller changes the order's
\* status, fills, filled amount, cost or commission or reports a fill; a
\* trade handed to handle_order_filled_for_restfallback ends the call with
\* the error, and so does an order info the exchange answered with.
C36_NoExchangeOrderIdNothingApplied ==
    /\ [][(~exchange_order_id /\ fpc \in {"inflight", "check", "handle"}
              /\ <<fpc, pending>>' # <<fpc, pending>>)
             => UNCHANGED <<status, fills, filled, cost, commission, applied,
                            fillNotes, terminalNotes>>]_vars
    /\ [][(~exchange_order_id /\ fpc = "handle" /\ fpc' # "handle")
             => (fpc' = "done" /\ checkResult' = "ErrNoExchangeOrderId")]_vars
    /\ [][(~exchange_order_id /\ fpc = "inflight" /\ restType = "GetOrderInfo"
              /\ fpc' = "done")
             => checkResult' \in {"ErrNoExchangeOrderId", "OkOrderNotFound"}]_vars

\* A get_order_trades response held a trade the order does not have; the
\* order has no exchange order id and the call has ended with the error,
\* the trade still unapplied.
C36_Witness ==
    /\ ~exchange_order_id
    /\ restType = "MyTrades"
    /\ fpc = "done"
    /\ checkResult = "ErrNoExchangeOrderId"
    /\ pending # <<>>
    /\ Head(pending) \notin fills
    /\ filled = 0
    /\ status[FillOrder] = "Created"

C38_ShutdownEndsRecorderWithOk ==
    /\ (database_url /\ shutdown_handle # "none")
           ~> (recorder \in {"stopped", "failed"})
    /\ []((database_url /\ shutdown_handle # "none"
              /\ recorder \in {"stopped", "failed"}) => shutdown_rx = "Ok")
    /\ [][shutdown_handle' # shutdown_handle =>
             /\ shutdown_handle' = (IF shutdown_rx_taken THEN "None" ELSE "Some")
             /\ shutdown_rx_taken']_vars
    /\ [](shutdown_handle = "none" <=> ~shutdown_rx_taken)

\* C39: no event the recorder task received is lost at shutdown: when the
\* task has left its loop and reported Ok(()), no table's buffer holds an
\* event that was not written; and no buffer ever holds BATCH_SIZE_TO_SAVE
\* events or more once a receive step is over.
C39_NoReceivedEventLostAtShutdown ==
    /\ (recorder = "stopped" /\ shutdown_rx = "Ok") =>
           \A t \in Tables :
               \A i \in 1..Len(events_map[t].events) :
                   written[events_map[t].events[i]] >= 1
    /\ \A t \in Tables : Len(events_map[t].events) < BATCH_SIZE_TO_SAVE

====
